---- MODULE Spec2Model ----
(***************************************************************************)
(* Booking / hiring reservation core of the Ibom Transit server:           *)
(* seat and bus availability, the payment ledger of a booking and of a     *)
(* hiring, the cancellation refund tiers and the status transitions.       *)
(*                                                                         *)
(* Money is counted in kobo (1/100 NGN), so that "round to 2 decimals" is  *)
(* rounding to a whole number and the gateway tolerance 0.01 is 1.         *)
(* Timestamps are abstract instants; hours-to-departure of a cancellation  *)
(* is an input of the request (the server clock at the time it arrives).   *)
(***************************************************************************)
EXTENDS Integers, Sequences, FiniteSets, TLC

VARIABLES bookings, hirings, req, lastOp

vars == <<bookings, hirings, req, lastOp>>

(* ---------------------------- bounds ----------------------------------- *)
MaxBookings == 2
MaxHirings == 1
MaxRefunds == 2
MaxPayments == 2
MaxVerifications == 3
HireCost == 4
BaseFare == 4
Capacity == 2

(* ---------------------------- data ------------------------------------- *)
Buses == {"bus1", "bus2"}
BusStatusOf == [bus1 |-> "Active", bus2 |-> "Maintenance"]
Seats == {"A1", "A2"}
Times == {1, 2, 3}
NoDate == 0
TxIds == {"t1", "t2"}
Procs == {"p1", "p2"}

BookingStatuses == {"Pending", "Confirmed", "Cancelled", "Completed", "No-Show", "Refunded"}
PaymentStatuses == {"Pending", "Paid", "Failed", "Refunded", "Partially Paid", "Partially Refunded"}
HiringStatuses == {"Pending", "Approved", "Confirmed", "Cancelled", "Rejected", "In Progress", "Completed", "Refunded"}

Range(s) == {s[i] : i \in DOMAIN s}

RECURSIVE SumAmounts(_)
SumAmounts(s) == IF s = <<>> THEN 0 ELSE Head(s).amount + SumAmounts(Tail(s))

Completed(s) == SelectSeq(s, LAMBDA e : e.status = "Completed")

(* Math.round(x * 100) / 100 of the amount num/den NGN, in kobo: half up. *)
Round2(num, den) == (2 * num + den) \div (2 * den)

IdleReq == [pc |-> "idle", args |-> <<>>]

(* The response of the last request: hist counts the entries the handler  *)
(* pushed on statusHistory.                                                 *)
Op(op, id, ok, why) ==
    [op |-> op, id |-> id, ok |-> ok, why |-> why,
     h |-> 0, admin |-> FALSE, pct |-> 0, amount |-> 0, tx |-> "none", hist |-> 0,
     window |-> <<0, 0>>]

(* ------------------------- Booking model ------------------------------- *)
getTotalPaid(b) == SumAmounts(Completed(b.payments))

getTotalRefunded(b) == SumAmounts(Completed(b.refunds))

(* A derivation whose first rule asks for strictly more than the fare. *)
derivedPaymentStatus_Strict(b) ==
    LET totalPaid == getTotalPaid(b)
        totalFare == b.totalFare
        totalRefunded == getTotalRefunded(b)
    IN  IF totalPaid > totalFare /\ totalRefunded = 0 THEN "Paid"
        ELSE IF totalPaid > 0 /\ totalPaid < totalFare THEN "Partially Paid"
        ELSE IF totalRefunded > 0 /\ totalRefunded < totalPaid THEN "Partially Refunded"
        ELSE IF totalRefunded >= totalPaid /\ totalPaid > 0 THEN "Refunded"
        ELSE IF totalPaid = 0 THEN "Pending"
        ELSE b.paymentStatus

derivedPaymentStatus(b) ==
    LET totalPaid == getTotalPaid(b)
        totalFare == b.totalFare
        totalRefunded == getTotalRefunded(b)
    IN  IF totalPaid >= totalFare /\ totalRefunded = 0 THEN "Paid"
        ELSE IF totalPaid > 0 /\ totalPaid < totalFare THEN "Partially Paid"
        ELSE IF totalRefunded > 0 /\ totalRefunded < totalPaid THEN "Partially Refunded"
        ELSE IF totalRefunded >= totalPaid /\ totalPaid > 0 THEN "Refunded"
        ELSE IF totalPaid = 0 THEN "Pending"
        ELSE b.paymentStatus

(* A recomputation that never advances the booking status. *)
confirmOnPaid_Never(b) == b

confirmOnPaid(b) ==
    IF b.paymentStatus = "Paid" /\ b.status = "Pending"
    THEN [b EXCEPT !.status = "Confirmed"]
    ELSE b

updatePaymentStatus(b) ==
    confirmOnPaid([b EXCEPT !.paymentStatus = derivedPaymentStatus(b)])

hasTransaction(b, transactionId) ==
    \E i \in DOMAIN b.payments : b.payments[i].transactionId = transactionId

(* An addPayment that appends without looking for the transaction id. *)
addPayment_Unchecked(b, amount, transactionId) ==
    [threw |-> FALSE,
     doc |-> updatePaymentStatus(
               [b EXCEPT !.payments = Append(@, [amount |-> amount,
                                                 transactionId |-> transactionId,
                                                 reference |-> transactionId,
                                                 status |-> "Completed"])])]

(* addPayment: throws, before it changes anything, when the transaction id *)
(* is already in the payments; otherwise appends and recomputes.            *)
addPayment(b, amount, transactionId) ==
    IF hasTransaction(b, transactionId)
    THEN [threw |-> TRUE, doc |-> b]
    ELSE [threw |-> FALSE,
          doc |-> updatePaymentStatus(
                    [b EXCEPT !.payments = Append(@, [amount |-> amount,
                                                      transactionId |-> transactionId,
                                                      reference |-> transactionId,
                                                      status |-> "Completed"])])]

addRefund(b, amount) ==
    updatePaymentStatus(
        [b EXCEPT !.refunds = Append(@, [amount |-> amount, status |-> "Completed"])])

validatePaymentAmount(b, amount) ==
    /\ ~(amount <= 0)
    /\ ~(amount > b.totalFare - getTotalPaid(b))

(* Refund tiers of Booking.handleCancellation, as a percentage. *)
handleCancellationPercentage(h) ==
    IF h > 72 THEN 100
    ELSE IF h > 48 THEN 75
    ELSE IF h > 24 THEN 50
    ELSE IF h > 12 THEN 25
    ELSE 0

handleCancellationRefund(b, h) ==
    Round2(getTotalPaid(b) * handleCancellationPercentage(h), 100)

handleCancellation(b, h) ==
    IF handleCancellationRefund(b, h) > 0
    THEN addRefund(b, handleCancellationRefund(b, h))
    ELSE b

(* ------------------------- createBooking ------------------------------- *)
(* A seat kept by every booking that has not been completed. *)
Active_NotCompleted(b) == b.status # "Completed"

Active(b) == b.status \in {"Pending", "Confirmed"}

HiringBlocks(h) == h.status \in {"Confirmed", "Pending", "In Progress"}

(* Hiring.find of createBooking: hirings of the bus whose [startDate,endDate] *)
(* contains the departure (or the return) timestamp.                          *)
hiringConflicts(H, r) ==
    {i \in DOMAIN H :
        /\ H[i].bus = r.bus
        /\ \/ (H[i].startDate <= r.departureDate /\ H[i].endDate >= r.departureDate)
           \/ (r.returnDate # NoDate /\ H[i].startDate <= r.returnDate
                                     /\ H[i].endDate >= r.returnDate)
        /\ HiringBlocks(H[i])}

sameRun(b, r) ==
    /\ b.bus = r.bus
    /\ \/ b.departureDate = r.departureDate
       \/ (r.returnDate # NoDate /\ b.returnDate = r.returnDate)
    /\ Active(b)

existingBookings(B, r) == {i \in DOMAIN B : sameRun(B[i], r)}

bookedOutbound(B, r) ==
    UNION {Range(B[i].passengers) :
             i \in {j \in existingBookings(B, r) : B[j].departureDate = r.departureDate}}

bookedReturn(B, r) ==
    UNION {Range(B[i].selectedSeats.return) :
             i \in {j \in existingBookings(B, r) :
                      B[j].returnDate # NoDate /\ B[j].returnDate = r.returnDate}}

notEnoughSeats(B, r) ==
    \/ Cardinality(bookedOutbound(B, r)) + Len(r.passengers) > Capacity
    \/ /\ r.bookingType = "Round-Trip"
       /\ Cardinality(bookedReturn(B, r)) + Len(r.passengers) > Capacity

duplicateSeats(r) ==
    \/ Cardinality(Range(r.outbound)) # Len(r.outbound)
    \/ Cardinality(Range(r.passengers)) # Len(r.passengers)

(* A comparison of the two lists by length alone. *)
seatsMismatch_LengthOnly(r) == Len(r.outbound) # Len(r.passengers)

seatsMismatch(r) ==
    \/ Len(r.outbound) # Len(r.passengers)
    \/ ~(\A i \in DOMAIN r.outbound : r.outbound[i] \in Range(r.passengers))

existingSeatConflicts(B, r) ==
    IF Len(r.outbound) > 0
    THEN {i \in DOMAIN B : sameRun(B[i], r)
                           /\ Range(B[i].passengers) \cap Range(r.outbound) # {}}
    ELSE {}

returnSeatConflicts(B, r) ==
    IF Len(r.outbound) > 0 /\ r.bookingType = "Round-Trip" /\ Len(r.return) > 0
    THEN {i \in DOMAIN B : /\ B[i].bus = r.bus
                           /\ B[i].returnDate = r.returnDate
                           /\ Active(B[i])
                           /\ Range(B[i].passengers) \cap Range(r.return) # {}}
    ELSE {}

(* A fare with one kobo charged per booking. *)
computeFare_WithFee(n, bookingType, promo) ==
    LET oneWay == BaseFare * n + 1
        trip == IF bookingType = "Round-Trip" THEN oneWay * 2 ELSE oneWay
    IN  IF promo THEN Round2(trip * 9, 10) ELSE Round2(trip, 1)

(* baseFare x passengers, doubled for a round trip, 10% off with WELCOME10. *)
computeFare(n, bookingType, promo) ==
    LET oneWay == BaseFare * n
        trip == IF bookingType = "Round-Trip" THEN oneWay * 2 ELSE oneWay
    IN  IF promo THEN Round2(trip * 9, 10) ELSE Round2(trip, 1)

newBooking(r) ==
    [bus |-> r.bus, departureDate |-> r.departureDate, returnDate |-> r.returnDate,
     bookingType |-> r.bookingType, passengers |-> r.passengers,
     selectedSeats |-> [outbound |-> r.outbound, return |-> r.return],
     promoCode |-> r.promo,
     totalFare |-> computeFare(Len(r.passengers), r.bookingType, r.promo),
     status |-> "Pending", paymentStatus |-> "Pending",
     payments |-> <<>>, refunds |-> <<>>,
     verifications |-> <<>>, verificationAttempts |-> 0]

(* The answer of createBooking's checks on the collections B, H: "" accepts. *)
createBookingVerdict(B, H, r) ==
    IF hiringConflicts(H, r) # {} THEN "hired"
    ELSE IF notEnoughSeats(B, r) THEN "capacity"
    ELSE IF duplicateSeats(r) THEN "duplicate"
    ELSE IF seatsMismatch(r) THEN "mismatch"
    ELSE IF existingSeatConflicts(B, r) # {} THEN "seats"
    ELSE IF returnSeatConflicts(B, r) # {} THEN "returnSeats"
    ELSE ""

(* One request processed with nothing else in between. *)
createBooking(r) ==
    /\ Len(bookings) < MaxBookings
    /\ LET v == createBookingVerdict(bookings, hirings, r)
       IN  /\ bookings' = IF v = "" THEN Append(bookings, newBooking(r)) ELSE bookings
           /\ lastOp' = Op("createBooking", Len(bookings) + 1, v = "", v)
    /\ UNCHANGED <<hirings, req>>

(* ------------------------- booking handlers ---------------------------- *)
Exists(id) == id \in DOMAIN bookings

save(id, b) == bookings' = [bookings EXCEPT ![id] = b]

(* The unique index on payments.transactionId spans the collection: a save *)
(* that brings in an identifier another booking already holds fails.       *)
uniqueIndexAllows(id, transactionId) ==
    \A j \in DOMAIN bookings : j # id => ~hasTransaction(bookings[j], transactionId)

NoUpdate == [hasPassengers |-> FALSE, passengers |-> <<>>, departureDate |-> NoDate,
             returnDate |-> NoDate, bus |-> "none", status |-> "none",
             paymentStatus |-> "none"]

adminFieldsOf(u) ==
    \/ u.departureDate # NoDate \/ u.returnDate # NoDate \/ u.bus # "none"
    \/ u.status # "none" \/ u.paymentStatus # "none"

(* Fare recalculation of updateBooking: booking.promoCode is no path of the *)
(* schema, so the document never carries it and no discount is applied.     *)
recalculatedFare(b) == computeFare(Len(b.passengers), b.bookingType, FALSE)

updatedBooking(b, isAdmin, u) ==
    LET b1 == IF u.hasPassengers THEN [b EXCEPT !.passengers = u.passengers] ELSE b
        b2 == IF isAdmin /\ u.departureDate # NoDate
              THEN [b1 EXCEPT !.departureDate = u.departureDate] ELSE b1
        b3 == IF isAdmin /\ u.returnDate # NoDate
              THEN [b2 EXCEPT !.returnDate = u.returnDate] ELSE b2
        b4 == IF isAdmin /\ u.bus # "none" THEN [b3 EXCEPT !.bus = u.bus] ELSE b3
        b5 == IF isAdmin /\ u.status # "none" THEN [b4 EXCEPT !.status = u.status] ELSE b4
        b6 == IF isAdmin /\ u.paymentStatus # "none"
              THEN [b5 EXCEPT !.paymentStatus = u.paymentStatus] ELSE b5
    IN  IF isAdmin /\ u.hasPassengers
        THEN [b6 EXCEPT !.totalFare = recalculatedFare(b6)]
        ELSE b6

updateBooking(id, isAdmin, u) ==
    /\ Exists(id)
    /\ LET b == bookings[id]
           why == IF b.status \in {"Completed", "Cancelled"} THEN "status"
                  ELSE IF ~isAdmin /\ adminFieldsOf(u) THEN "forbidden"
                  ELSE ""
       IN  /\ bookings' = IF why = "" THEN [bookings EXCEPT ![id] = updatedBooking(b, isAdmin, u)]
                          ELSE bookings
           /\ lastOp' = [Op("updateBooking", id, why = "", why) EXCEPT !.admin = isAdmin]
    /\ UNCHANGED <<hirings, req>>

updateBookingStatus(id, status) ==
    /\ Exists(id)
    /\ LET b == bookings[id]
           why == IF status \notin {"Pending", "Confirmed", "Cancelled", "Completed", "No-Show"}
                  THEN "invalid"
                  ELSE IF b.status = "Cancelled" /\ status # "Cancelled" THEN "cancelled"
                  ELSE IF b.status = "Completed" /\ status # "Completed" THEN "completed"
                  ELSE ""
       IN  /\ bookings' = IF why = "" THEN [bookings EXCEPT ![id].status = status]
                          ELSE bookings
           /\ lastOp' = [Op("updateBookingStatus", id, why = "", why) EXCEPT
                           !.admin = TRUE, !.hist = IF why = "" THEN 1 ELSE 0]
    /\ UNCHANGED <<hirings, req>>

(* Refund percentage of cancelBooking at h hours before departure. *)
cancelBookingPercentage(b, h, isAdmin) ==
    IF b.paymentStatus \in {"Paid", "Partially Paid"}
    THEN IF h > 72 THEN 100
         ELSE IF h > 48 THEN 75
         ELSE IF h > 24 THEN 50
         ELSE IF isAdmin THEN 50
         ELSE 0
    ELSE 0

cancelBookingRefund(b, h, isAdmin) ==
    IF b.paymentStatus \in {"Paid", "Partially Paid"}
    THEN Round2(SumAmounts(b.payments) * cancelBookingPercentage(b, h, isAdmin), 100)
    ELSE 0

(* A cutoff that lets every user cancel at any hour. *)
tooLateToCancel_Never(h, isAdmin) == FALSE

(* Only admins can cancel less than 24 hours before departure. *)
tooLateToCancel(h, isAdmin) == h < 24 /\ ~isAdmin

(* cancelledAt, cancellationReason, refundAmount and statusHistory are no   *)
(* paths of the schema: only the status reaches the stored document.        *)
cancelBooking(id, h, isAdmin) ==
    /\ Exists(id)
    /\ LET b == bookings[id]
           why == IF b.status = "Cancelled" THEN "cancelled"
                  ELSE IF b.status = "Completed" THEN "completed"
                  ELSE IF tooLateToCancel(h, isAdmin) THEN "tooLate"
                  ELSE ""
       IN  /\ bookings' = IF why = "" THEN [bookings EXCEPT ![id].status = "Cancelled"]
                          ELSE bookings
           /\ lastOp' = [Op("cancelBooking", id, why = "", why) EXCEPT
                           !.h = h, !.admin = isAdmin,
                           !.hist = IF why = "" THEN 1 ELSE 0,
                           !.pct = IF why = "" THEN cancelBookingPercentage(b, h, isAdmin) ELSE 0,
                           !.amount = IF why = "" THEN cancelBookingRefund(b, h, isAdmin) ELSE 0]
    /\ UNCHANGED <<hirings, req>>

(* Booking.addRefund({amount}) on a loaded booking, then save: the entry is *)
(* built and pushed whatever the amount is, and the schema accepts it.      *)
bookingAddRefund(id, amount) ==
    /\ Exists(id)
    /\ Len(bookings[id].refunds) < MaxRefunds
    /\ save(id, addRefund(bookings[id], amount))
    /\ lastOp' = [Op("addRefund", id, TRUE, "") EXCEPT !.amount = amount]
    /\ UNCHANGED <<hirings, req>>

(* ------------------------- ticket handlers ----------------------------- *)
(* validateTicketStatus: the reason of the verdict on a loaded record. *)
validateTicketStatus(b, expired) ==
    IF expired THEN "expired"
    ELSE IF b.paymentStatus # "Paid" THEN "payment_incomplete"
    ELSE IF b.status \notin {"Confirmed", "Completed"} THEN "invalid_status"
    ELSE IF b.verifications # <<>> /\ b.verifications[Len(b.verifications)].result = "valid"
         THEN "already_verified"
    ELSE "valid"

(* updateTicketUsage: the entry is pushed and saved; verifiedBy is required *)
(* by the schema, and a failed save is caught and logged.                   *)
updateTicketUsage(b, conductorId) ==
    IF conductorId = "none" THEN b
    ELSE [b EXCEPT !.verifications =
              Append(@, [verifiedBy |-> conductorId, result |-> "valid", isManual |-> FALSE])]

(* verifyTicketQR for a ticket whose QR data names booking id: the attempt *)
(* is logged, and a valid ticket not yet used gets a verification entry.   *)
verifyTicketQR(id, conductorId, expired) ==
    /\ Exists(id)
    /\ Len(bookings[id].verifications) < MaxVerifications
    /\ bookings[id].verificationAttempts < MaxVerifications
    /\ LET b == bookings[id]
           reason == validateTicketStatus(b, expired)
           logged == [b EXCEPT !.verificationAttempts = @ + 1]
       IN  /\ save(id, IF reason = "valid" THEN updateTicketUsage(logged, conductorId)
                       ELSE logged)
           /\ lastOp' = Op("verifyTicketQR", id, reason \in {"valid", "already_verified"},
                           reason)
    /\ UNCHANGED <<hirings, req>>

(* manualTicketValidation with action validate, invalidate or reset. *)
manualTicketValidation(id, action) ==
    /\ Exists(id)
    /\ Len(bookings[id].verifications) < MaxVerifications
    /\ LET b == bookings[id]
           verification == [verifiedBy |-> "staff",
                            result |-> IF action = "validate" THEN "valid" ELSE "invalid",
                            isManual |-> TRUE]
       IN  /\ save(id, IF action = "reset" THEN [b EXCEPT !.verifications = <<>>]
                       ELSE [b EXCEPT !.verifications = Append(@, verification)])
           /\ lastOp' = Op("manualTicketValidation", id, TRUE, action)
    /\ UNCHANGED <<hirings, req>>

(* Booking.updateStatus(newStatus) called h hours before departure. *)
updateStatus(id, newStatus, h) ==
    /\ Exists(id)
    /\ LET b == [bookings[id] EXCEPT !.status = newStatus]
           cancels == newStatus \in {"Cancelled", "Refunded"}
           refund == handleCancellationRefund(b, h)
       IN  /\ (cancels /\ refund > 0) => Len(b.refunds) < MaxRefunds
           /\ save(id, IF cancels THEN handleCancellation(b, h) ELSE b)
           /\ lastOp' = [Op(IF cancels THEN "handleCancellation" ELSE "updateStatus",
                            id, TRUE, "") EXCEPT
                           !.h = h,
                           !.pct = IF cancels /\ refund > 0
                                   THEN handleCancellationPercentage(h) ELSE 0,
                           !.amount = IF cancels THEN refund ELSE 0]
    /\ UNCHANGED <<hirings, req>>

processPayment(id, amount, transactionId) ==
    /\ Exists(id)
    /\ LET b == bookings[id]
           why == IF b.status = "Cancelled" THEN "cancelled"
                  ELSE IF b.paymentStatus = "Paid" THEN "paid"
                  ELSE IF amount <= 0 THEN "amount"
                  ELSE IF ~validatePaymentAmount(b, amount) THEN "balance"
                  ELSE IF addPayment(b, amount, transactionId).threw THEN "duplicate"
                  ELSE IF ~uniqueIndexAllows(id, transactionId) THEN "index"
                  ELSE ""
       IN  /\ bookings' = IF why = ""
                          THEN [bookings EXCEPT ![id] = addPayment(b, amount, transactionId).doc]
                          ELSE bookings
           /\ lastOp' = [Op("processPayment", id, why = "", why) EXCEPT
                           !.amount = amount, !.tx = transactionId]
    /\ UNCHANGED <<hirings, req>>

(* verifyPayment for a booking: the gateway reports success and an amount. *)
verifyPaymentAccepts(b, amount) == ~(amount > (b.totalFare - getTotalPaid(b)) + 1)

alreadyProcessed(b, reference) ==
    \E i \in DOMAIN b.payments :
        b.payments[i].reference = reference \/ b.payments[i].transactionId = reference

(* A gateway answer taken as successful whatever it says. *)
gatewaySucceeded_Always(success) == TRUE

(* verification.status && verification.data.status === "success"; a gateway *)
(* that cannot be reached throws before any record is loaded.               *)
gatewaySucceeded(success) == success

verifyPayment(id, reference, amount, success) ==
    /\ Exists(id)
    /\ LET b == bookings[id]
           why == IF ~gatewaySucceeded(success) THEN "gateway"
                  ELSE IF ~verifyPaymentAccepts(b, amount) THEN "balance"
                  ELSE IF alreadyProcessed(b, reference) THEN "already"
                  ELSE IF addPayment(b, amount, reference).threw THEN "duplicate"
                  ELSE IF ~uniqueIndexAllows(id, reference) THEN "index"
                  ELSE ""
       IN  /\ bookings' = IF why = ""
                          THEN [bookings EXCEPT ![id] = addPayment(b, amount, reference).doc]
                          ELSE bookings
           /\ lastOp' = [Op("verifyPayment", id, why \in {"", "already"}, why)
                           EXCEPT !.amount = amount, !.tx = reference]
    /\ UNCHANGED <<hirings, req>>

(* ------------------------- Hiring model -------------------------------- *)
hiringTotalPaid(h) == SumAmounts(Completed(h.payments))

(* Hiring.checkBusAvailability of the hiring h (stored under selfId, or 0).  *)
conflictingBookings(B, h) ==
    {i \in DOMAIN B :
        /\ B[i].bus = h.bus
        /\ \/ (B[i].departureDate >= h.startDate /\ B[i].departureDate <= h.endDate)
           \/ (B[i].returnDate # NoDate /\ B[i].returnDate >= h.startDate
                                        /\ B[i].returnDate <= h.endDate)
        /\ Active(B[i])}

conflictingHirings(H, h, selfId) ==
    {i \in DOMAIN H :
        /\ H[i].bus = h.bus
        /\ i # selfId
        /\ \/ (H[i].startDate <= h.endDate /\ H[i].startDate >= h.startDate)
           \/ (H[i].endDate <= h.endDate /\ H[i].endDate >= h.startDate)
        /\ HiringBlocks(H[i])}

checkBusAvailability(B, H, h, selfId) ==
    /\ h.bus \in Buses
    /\ BusStatusOf[h.bus] = "Active"
    /\ conflictingBookings(B, h) = {}
    /\ conflictingHirings(H, h, selfId) = {}

(* hiring.checkBusAvailability() on a hiring document not yet stored, for  *)
(* the window [startDate, endDate]: the answer is the response.            *)
hiringCheckAvailability(bus, startDate, endDate) ==
    /\ startDate < endDate
    /\ LET h == [bus |-> bus, startDate |-> startDate, endDate |-> endDate]
           ok == checkBusAvailability(bookings, hirings, h, 0)
       IN  lastOp' = [Op("checkBusAvailability", 0, ok,
                         IF ok THEN ""
                         ELSE IF BusStatusOf[bus] # "Active" THEN "inactive"
                         ELSE IF conflictingBookings(bookings, h) # {} THEN "booked"
                         ELSE "hired")
                        EXCEPT !.window = <<startDate, endDate>>]
    /\ UNCHANGED <<bookings, hirings, req>>

newHiring(bus, startDate, endDate, totalCost, deposit, policy) ==
    [bus |-> bus, startDate |-> startDate, endDate |-> endDate,
     status |-> "Pending", totalCost |-> totalCost, deposit |-> deposit,
     paymentStatus |-> "Pending", payments |-> <<>>, cancellationPolicy |-> policy]

(* hiringController.createHiring: a hiring is stored, Pending, only when    *)
(* checkBusAvailability reports the bus available for its window.           *)
createHiring(bus, startDate, endDate, totalCost, deposit, policy) ==
    /\ Len(hirings) < MaxHirings
    /\ startDate < endDate
    /\ LET h == newHiring(bus, startDate, endDate, totalCost, deposit, policy)
           ok == checkBusAvailability(bookings, hirings, h, 0)
       IN  /\ hirings' = IF ok THEN Append(hirings, h) ELSE hirings
           /\ lastOp' = Op("createHiring", Len(hirings) + 1, ok, IF ok THEN "" ELSE "unavailable")
    /\ UNCHANGED <<bookings, req>>

(* Tiers that are reached at their boundary day, not after it. *)
hiringCancellationPercentage_AtBoundary(policy, d) ==
    IF policy = "Standard"
    THEN IF d >= 14 THEN 90 ELSE IF d >= 7 THEN 75 ELSE IF d >= 3 THEN 50
         ELSE IF d >= 1 THEN 25 ELSE 0
    ELSE IF policy = "Flexible"
    THEN IF d >= 7 THEN 100 ELSE IF d >= 3 THEN 80 ELSE IF d >= 1 THEN 50 ELSE 0
    ELSE IF policy = "Strict"
    THEN IF d >= 30 THEN 75 ELSE IF d >= 14 THEN 50 ELSE IF d >= 7 THEN 25 ELSE 0
    ELSE 0

(* Refund percentage of Hiring.handleCancellation at d days before start. *)
hiringCancellationPercentage(policy, d) ==
    IF policy = "Standard"
    THEN IF d > 14 THEN 90 ELSE IF d > 7 THEN 75 ELSE IF d > 3 THEN 50
         ELSE IF d > 1 THEN 25 ELSE 0
    ELSE IF policy = "Flexible"
    THEN IF d > 7 THEN 100 ELSE IF d > 3 THEN 80 ELSE IF d > 1 THEN 50 ELSE 0
    ELSE IF policy = "Strict"
    THEN IF d > 30 THEN 75 ELSE IF d > 14 THEN 50 ELSE IF d > 7 THEN 25 ELSE 0
    ELSE 0

hiringCancellationRefund(h, d) ==
    Round2(hiringTotalPaid(h) * hiringCancellationPercentage(h.cancellationPolicy, d), 100)

(* Hiring.updateStatus(newStatus) called d days before the start. A refund  *)
(* is pushed to payments with method 'Refund', which is no value of the     *)
(* payments.method enum: the save then fails validation and nothing of the  *)
(* call is stored.                                                          *)
hiringUpdateStatus(id, newStatus, d) ==
    /\ id \in DOMAIN hirings
    /\ LET h == hirings[id]
           cancels == newStatus \in {"Cancelled", "Refunded"}
           refund == IF cancels THEN hiringCancellationRefund(h, d) ELSE 0
           why == IF newStatus \notin {"Pending", "Confirmed", "Cancelled", "In Progress",
                                       "Completed", "Refunded"} THEN "invalid"
                  ELSE IF refund > 0 THEN "validation"
                  ELSE ""
       IN  /\ hirings' = IF why = "" THEN [hirings EXCEPT ![id].status = newStatus] ELSE hirings
           /\ lastOp' = [Op(IF cancels THEN "hiringHandleCancellation" ELSE "hiringUpdateStatus",
                            id, why = "", why) EXCEPT
                           !.h = d, !.amount = refund,
                           !.pct = IF cancels
                                   THEN hiringCancellationPercentage(h.cancellationPolicy, d)
                                   ELSE 0]
    /\ UNCHANGED <<bookings, req>>

(* Hiring.processPayment: the document after the call; throws on amount <= 0. *)
hiringPaid(h, amount, transactionId) ==
    LET h1 == [h EXCEPT !.payments = Append(@, [amount |-> amount,
                                                transactionId |-> transactionId,
                                                status |-> "Completed"])]
        totalPaid == hiringTotalPaid(h1)
        h2 == [h1 EXCEPT !.paymentStatus =
                 IF totalPaid >= h.totalCost THEN "Paid"
                 ELSE IF totalPaid > 0 THEN "Partially Paid"
                 ELSE "Pending"]
    IN  IF totalPaid >= h.deposit /\ h.status = "Pending"
        THEN [h2 EXCEPT !.status = "Confirmed"]
        ELSE h2

hiringProcessPayment(id, amount, transactionId) ==
    /\ id \in DOMAIN hirings
    /\ Len(hirings[id].payments) < MaxPayments
    /\ LET h == hirings[id]
           why == IF amount <= 0 THEN "amount" ELSE ""
       IN  /\ hirings' = IF why = ""
                         THEN [hirings EXCEPT ![id] = hiringPaid(h, amount, transactionId)]
                         ELSE hirings
           /\ lastOp' = [Op("hiringProcessPayment", id, why = "", why) EXCEPT
                           !.amount = amount, !.tx = transactionId]
    /\ UNCHANGED <<bookings, req>>

(* verifyPayment for a hiring: processPayment, then a second advance to    *)
(* Confirmed keyed on paymentStatus = Paid.                                 *)
verifiedHiring(h, amount, reference) ==
    LET h1 == hiringPaid(h, amount, reference)
    IN  IF h1.paymentStatus = "Paid" /\ h1.status = "Pending"
        THEN [h1 EXCEPT !.status = "Confirmed"]
        ELSE h1

verifyPaymentHiring(id, reference, amount, success) ==
    /\ id \in DOMAIN hirings
    /\ Len(hirings[id].payments) < MaxPayments
    /\ LET h == hirings[id]
           why == IF ~gatewaySucceeded(success) THEN "gateway"
                  ELSE IF amount > (h.totalCost - hiringTotalPaid(h)) + 1 THEN "balance"
                  ELSE IF \E i \in DOMAIN h.payments : h.payments[i].transactionId = reference
                       THEN "already"
                  ELSE IF amount <= 0 THEN "amount"
                  ELSE ""
       IN  /\ hirings' = IF why = ""
                         THEN [hirings EXCEPT ![id] = verifiedHiring(h, amount, reference)]
                         ELSE hirings
           /\ lastOp' = [Op("verifyPaymentHiring", id, why \in {"", "already"}, why) EXCEPT
                           !.amount = amount, !.tx = reference]
    /\ UNCHANGED <<bookings, req>>

(* ------------------------- Hiring.calculateTotalCost -------------------- *)
(* Dates are counted in half hours, money in kobo. A hiring document here  *)
(* carries the pricing fields; routeFound and busFound say what            *)
(* Route.findById and Bus.findById return.                                 *)
TicksPerHour == 2

durationInTicks(h) == h.endDate - h.startDate

(* Math.ceil(durationInHours) and Math.ceil(durationInDays). *)
ceilHours(h) == (durationInTicks(h) + TicksPerHour - 1) \div TicksPerHour

ceilDays(h) == (durationInTicks(h) + 24 * TicksPerHour - 1) \div (24 * TicksPerHour)

(* The error thrown by the Route-Based case, "" when none. *)
routePricingError(h) ==
    IF h.rateType # "Route-Based" THEN ""
    ELSE IF ~h.hasRoute THEN "missingRoute"
    ELSE IF ~(h.routeFound /\ h.busFound) THEN "notFound"
    ELSE ""

(* A day of more than 24 hours started counts as a further day. *)
baseCost_DayStarted(h) ==
    IF h.rateType = "Per Day" THEN h.baseRate * (durationInTicks(h) \div (24 * TicksPerHour) + 1)
    ELSE IF h.rateType = "Per Hour" THEN h.baseRate * (durationInTicks(h) \div TicksPerHour + 1)
    ELSE IF h.rateType = "Per Kilometer" THEN h.baseRate * h.estimatedDistance
    ELSE IF h.rateType = "Fixed" THEN h.baseRate
    ELSE h.baseRate * h.busCapacity * h.routePriceMultiplier

(* A Route-Based cost that grows with the days hired. *)
baseCost_RouteByDay(h) ==
    IF h.rateType = "Per Day" THEN h.baseRate * ceilDays(h)
    ELSE IF h.rateType = "Per Hour" THEN h.baseRate * ceilHours(h)
    ELSE IF h.rateType = "Per Kilometer" THEN h.baseRate * h.estimatedDistance
    ELSE IF h.rateType = "Fixed" THEN h.baseRate
    ELSE h.baseRate * h.busCapacity * h.routePriceMultiplier * ceilDays(h)

(* The switch on rateType. *)
baseCost(h) ==
    IF h.rateType = "Per Day" THEN h.baseRate * ceilDays(h)
    ELSE IF h.rateType = "Per Hour" THEN h.baseRate * ceilHours(h)
    ELSE IF h.rateType = "Per Kilometer" THEN h.baseRate * h.estimatedDistance
    ELSE IF h.rateType = "Fixed" THEN h.baseRate
    ELSE h.baseRate * h.busCapacity * h.routePriceMultiplier

(* No overtime is ever charged. *)
overtimeTicks_None(h) == 0

(* The hours over 8 per day started, in ticks, charged when overtimeRate > 0. *)
overtimeTicks(h) ==
    IF durationInTicks(h) > ceilDays(h) * 8 * TicksPerHour /\ h.overtimeRate > 0
    THEN durationInTicks(h) - ceilDays(h) * 8 * TicksPerHour
    ELSE 0

(* A doubling applied to the base cost only. *)
accumulatedCost_DoubleBase(h) ==
    LET base == IF h.tripType = "Round-Trip" THEN 2 * baseCost(h) ELSE baseCost(h)
        withAllowance == base + (IF h.driverAllowance > 0 THEN h.driverAllowance ELSE 0)
        charges == SumAmounts(h.additionalCharges)
    IN  TicksPerHour * (withAllowance + charges) + overtimeTicks(h) * h.overtimeRate

(* The accumulated total before rounding, times TicksPerHour. *)
accumulatedCost(h) ==
    LET withAllowance == baseCost(h) + (IF h.driverAllowance > 0 THEN h.driverAllowance ELSE 0)
        charges == SumAmounts(h.additionalCharges)
        oneWay == TicksPerHour * (withAllowance + charges) + overtimeTicks(h) * h.overtimeRate
    IN  IF h.tripType = "Round-Trip" THEN 2 * oneWay ELSE oneWay

totalCostOf(h) == Round2(accumulatedCost(h), TicksPerHour)

(* A Route-Based case that throws nothing. *)
costOutcome_NoThrow(h) == [threw |-> "", doc |-> [h EXCEPT !.totalCost = totalCostOf(h)]]

(* hiring.calculateTotalCost(): throws before this.totalCost is assigned. *)
costOutcome(h) ==
    IF routePricingError(h) # "" THEN [threw |-> routePricingError(h), doc |-> h]
    ELSE [threw |-> "", doc |-> [h EXCEPT !.totalCost = totalCostOf(h)]]

calculateTotalCost(id) ==
    /\ id \in DOMAIN hirings
    /\ LET out == costOutcome(hirings[id])
       IN  /\ hirings' = [hirings EXCEPT ![id] = out.doc]
           /\ lastOp' = [Op("calculateTotalCost", id, out.threw = "", out.threw) EXCEPT
                           !.amount = IF out.threw = "" THEN out.doc.totalCost ELSE 0]
    /\ UNCHANGED <<bookings, req>>

(* ------------------- createBooking, await by await --------------------- *)
(* The handler reads the collections at four awaits and writes at a fifth; *)
(* another request may run between any two of them.                         *)
cbStart(p, r) ==
    /\ req[p].pc = "idle"
    /\ req' = [req EXCEPT ![p] = [pc |-> "hiring", args |-> r]]
    /\ UNCHANGED <<bookings, hirings, lastOp>>

cbReject(p, why) ==
    /\ req' = [req EXCEPT ![p].pc = "rejected"]
    /\ lastOp' = Op("createBooking", 0, FALSE, why)
    /\ UNCHANGED <<bookings, hirings>>

cbGoto(p, pc) ==
    /\ req' = [req EXCEPT ![p].pc = pc]
    /\ UNCHANGED <<bookings, hirings, lastOp>>

cbHiring(p) ==
    /\ req[p].pc = "hiring"
    /\ IF hiringConflicts(hirings, req[p].args) # {}
       THEN cbReject(p, "hired")
       ELSE cbGoto(p, "capacity")

cbCapacity(p) ==
    /\ req[p].pc = "capacity"
    /\ LET r == req[p].args
       IN  IF notEnoughSeats(bookings, r) THEN cbReject(p, "capacity")
           ELSE IF duplicateSeats(r) THEN cbReject(p, "duplicate")
           ELSE IF seatsMismatch(r) THEN cbReject(p, "mismatch")
           ELSE cbGoto(p, "seats")

cbSeats(p) ==
    /\ req[p].pc = "seats"
    /\ LET r == req[p].args
       IN  IF existingSeatConflicts(bookings, r) # {} THEN cbReject(p, "seats")
           ELSE IF Len(r.outbound) > 0 /\ r.bookingType = "Round-Trip" /\ Len(r.return) > 0
                THEN cbGoto(p, "returnSeats")
                ELSE cbGoto(p, "save")

cbReturnSeats(p) ==
    /\ req[p].pc = "returnSeats"
    /\ IF returnSeatConflicts(bookings, req[p].args) # {}
       THEN cbReject(p, "returnSeats")
       ELSE cbGoto(p, "save")

cbSave(p) ==
    /\ req[p].pc = "save"
    /\ bookings' = Append(bookings, newBooking(req[p].args))
    /\ req' = [req EXCEPT ![p].pc = "created"]
    /\ lastOp' = Op("createBooking", Len(bookings) + 1, TRUE, "")
    /\ UNCHANGED hirings

Finished(p) == req[p].pc \in {"created", "rejected"}

(* ------------------- payments, await by await -------------------------- *)
(* A payment handler reads the booking at Booking.findById and writes at   *)
(* booking.save(); another request may run between the two. The save of a *)
(* document whose payments were pushed sends the pushed entry and the      *)
(* paths the handler changed, not the whole document, and the unique index *)
(* on payments.transactionId compares documents, not the entries of one.   *)
pushSaved(stored, snap, mem) ==
    [stored EXCEPT
       !.payments = Append(@, mem.payments[Len(mem.payments)]),
       !.paymentStatus = IF mem.paymentStatus # snap.paymentStatus
                         THEN mem.paymentStatus ELSE @,
       !.status = IF mem.status # snap.status THEN mem.status ELSE @]

payFind(p, kind, id, amount, transactionId) ==
    /\ req[p].pc = "idle"
    /\ Exists(id)
    /\ Len(bookings[id].payments) < MaxPayments
    /\ req' = [req EXCEPT ![p] = [pc |-> kind,
                                  args |-> [id |-> id, amount |-> amount,
                                            tx |-> transactionId, doc |-> bookings[id]]]]
    /\ UNCHANGED <<bookings, hirings, lastOp>>

paySave(p, kind, why) ==
    LET a == req[p].args
    IN  /\ bookings' = IF why = ""
                       THEN [bookings EXCEPT ![a.id] =
                               pushSaved(@, a.doc, addPayment(a.doc, a.amount, a.tx).doc)]
                       ELSE bookings
        /\ req' = [req EXCEPT ![p].pc = IF why = "" THEN "paid" ELSE "rejected"]
        /\ lastOp' = [Op(kind, a.id, why \in {"", "already"}, why) EXCEPT
                        !.amount = a.amount, !.tx = a.tx]
        /\ UNCHANGED hirings

(* processPayment from its findById (ppFind) to its save (ppSave). *)
ppFind(p, amount, transactionId) == payFind(p, "processPayment", 1, amount, transactionId)

ppSave(p) ==
    /\ req[p].pc = "processPayment"
    /\ LET b == req[p].args.doc
           amount == req[p].args.amount
           why == IF b.status = "Cancelled" THEN "cancelled"
                  ELSE IF b.paymentStatus = "Paid" THEN "paid"
                  ELSE IF amount <= 0 THEN "amount"
                  ELSE IF ~validatePaymentAmount(b, amount) THEN "balance"
                  ELSE IF addPayment(b, amount, req[p].args.tx).threw THEN "duplicate"
                  ELSE IF ~uniqueIndexAllows(req[p].args.id, req[p].args.tx) THEN "index"
                  ELSE ""
       IN  paySave(p, "processPayment", why)

(* verifyPayment from its findById (vpFind) to its save (vpSave). *)
vpFind(p, reference, amount) == payFind(p, "verifyPayment", 1, amount, reference)

vpSave(p) ==
    /\ req[p].pc = "verifyPayment"
    /\ LET b == req[p].args.doc
           amount == req[p].args.amount
           why == IF ~verifyPaymentAccepts(b, amount) THEN "balance"
                  ELSE IF alreadyProcessed(b, req[p].args.tx) THEN "already"
                  ELSE IF addPayment(b, amount, req[p].args.tx).threw THEN "duplicate"
                  ELSE IF ~uniqueIndexAllows(req[p].args.id, req[p].args.tx) THEN "index"
                  ELSE ""
       IN  paySave(p, "verifyPayment", why)

(* The response is sent: the client may send its next request. *)
payRespond(p) ==
    /\ req[p].pc \in {"paid", "rejected"}
    /\ req' = [req EXCEPT ![p] = IdleReq]
    /\ UNCHANGED <<bookings, hirings, lastOp>>

NoneInFlight == \A p \in Procs : req[p].pc \in {"idle", "paid", "rejected"}

(* ------------------------- inputs --------------------------------------- *)
Request(dep, ret, type, seats, out, back) ==
    [bus |-> "bus1", departureDate |-> dep, returnDate |-> ret, bookingType |-> type,
     passengers |-> seats, outbound |-> out, return |-> back, promo |-> FALSE]

SeatLists == {<<"A1">>, <<"A2">>, <<"A1", "A2">>}

OneWayRequests == {Request(d, NoDate, "One-Way", l, l, <<>>) : d \in {1, 2}, l \in SeatLists}

RoundTripRequests ==
    {Request(1, 2, "Round-Trip", l, l, k) : l \in {<<"A1">>, <<"A2">>}, k \in {<<"A1">>, <<"A2">>}}

BadRequests == {Request(1, NoDate, "One-Way", <<"A1", "A1">>, <<"A1", "A1">>, <<>>),
                Request(1, NoDate, "One-Way", <<"A1">>, <<"A2">>, <<>>)}

Requests == OneWayRequests \cup RoundTripRequests \cup BadRequests

Hours == {0, 12, 13, 24, 25, 48, 49, 72, 73}

SeatChange == [NoUpdate EXCEPT !.hasPassengers = TRUE, !.passengers = <<"A2">>]

(* ------------------------- specifications ------------------------------- *)
Init ==
    /\ bookings = <<>>
    /\ hirings = <<>>
    /\ req = [p \in Procs |-> IdleReq]
    /\ lastOp = Op("init", 0, TRUE, "")

(* Requests handled one after the other: bookings and hirings of one bus. *)
Next ==
    \/ \E r \in Requests : createBooking(r)
    \/ \E id \in 1..MaxBookings, st \in {"Confirmed", "Cancelled", "No-Show"} :
          updateBookingStatus(id, st)
    \/ \E id \in 1..MaxBookings : cancelBooking(id, 25, FALSE)
    \/ \E id \in 1..MaxBookings : updateBooking(id, FALSE, SeatChange)
    \/ \E s \in Times, e \in Times : createHiring("bus1", s, e, HireCost, 0, "Standard")
    \/ \E id \in 1..MaxHirings, st \in {"Confirmed", "Cancelled"} :
          hiringUpdateStatus(id, st, 2)

Spec == Init /\ [][Next]_vars

(* Two createBooking requests in flight at once. *)
NextConc ==
    \E p \in Procs :
        \/ \E r \in OneWayRequests \cup RoundTripRequests : cbStart(p, r)
        \/ cbHiring(p)
        \/ cbCapacity(p)
        \/ cbSeats(p)
        \/ cbReturnSeats(p)
        \/ cbSave(p)

SpecConc == Init /\ [][NextConc]_vars

(* The ledger of one booking: payments, refunds and admin updates. *)
LedgerRequest == Request(1, NoDate, "One-Way", <<"A1">>, <<"A1">>, <<>>)

PayAmounts == {0, BaseFare \div 2, BaseFare, BaseFare + 1}

GatewayAmounts == {BaseFare \div 2, BaseFare + 1, BaseFare + 2}

LedgerUpdates ==
    {[NoUpdate EXCEPT !.hasPassengers = TRUE, !.passengers = <<"A1", "A2">>],
     [NoUpdate EXCEPT !.hasPassengers = TRUE, !.passengers = <<"A2">>],
     [NoUpdate EXCEPT !.paymentStatus = "Paid"]}

NextLedger ==
    \/ (bookings = <<>> /\ createBooking(LedgerRequest))
    \/ \E amount \in PayAmounts, tx \in TxIds : processPayment(1, amount, tx)
    \/ \E amount \in GatewayAmounts, ref \in TxIds : verifyPayment(1, ref, amount, TRUE)
    \/ verifyPayment(1, "t1", BaseFare, FALSE)
    \/ \E st \in {"Pending", "Cancelled", "Refunded"}, h \in {12, 49, 73} : updateStatus(1, st, h)
    \/ \E st \in {"Pending", "Completed"} : updateBookingStatus(1, st)
    \/ \E isAdmin \in BOOLEAN, u \in LedgerUpdates : updateBooking(1, isAdmin, u)

SpecLedger == Init /\ [][NextLedger]_vars

(* The refunds of one booking. *)
RefundAmounts == {0 - 1, 0, 1, BaseFare}

NextRefund ==
    \/ (bookings = <<>> /\ createBooking(LedgerRequest))
    \/ \E amount \in {BaseFare \div 2, BaseFare}, tx \in TxIds : processPayment(1, amount, tx)
    \/ \E amount \in RefundAmounts : bookingAddRefund(1, amount)
    \/ \E h \in {12, 49, 73} : updateStatus(1, "Cancelled", h)

SpecRefund == Init /\ [][NextRefund]_vars

(* The ticket of one booking. *)
NextTicket ==
    \/ (bookings = <<>> /\ createBooking(LedgerRequest))
    \/ \E amount \in {BaseFare \div 2, BaseFare} : processPayment(1, amount, "t1")
    \/ \E conductorId \in {"c1", "none"}, expired \in BOOLEAN :
          verifyTicketQR(1, conductorId, expired)
    \/ \E action \in {"validate", "invalidate", "reset"} : manualTicketValidation(1, action)
    \/ cancelBooking(1, 80, FALSE)

SpecTicket == Init /\ [][NextTicket]_vars

(* Gateway verifications of one booking and of one hiring. *)
NextGateway ==
    \/ (bookings = <<>> /\ createBooking(LedgerRequest))
    \/ createHiring("bus1", 2, 3, HireCost, 0, "Standard")
    \/ \E amount \in {BaseFare \div 2, BaseFare}, ref \in TxIds, success \in BOOLEAN :
          verifyPayment(1, ref, amount, success)
    \/ \E amount \in {HireCost \div 2, HireCost}, ref \in TxIds, success \in BOOLEAN :
          verifyPaymentHiring(1, ref, amount, success)

SpecGateway == Init /\ [][NextGateway]_vars

(* Bookings and availability checks of an Active bus and of one in *)
(* Maintenance.                                                     *)
BusRequests ==
    {[Request(d, NoDate, "One-Way", l, l, <<>>) EXCEPT !.bus = bus] :
        d \in {1, 2}, l \in SeatLists, bus \in Buses}

NextBusStatus ==
    \/ \E r \in BusRequests : createBooking(r)
    \/ \E id \in 1..MaxBookings : cancelBooking(id, 80, FALSE)
    \/ \E bus \in Buses, s \in Times, e \in Times : hiringCheckAvailability(bus, s, e)

SpecBusStatus == Init /\ [][NextBusStatus]_vars

(* The cancellation of one booking, at every boundary of the refund tiers. *)
NextCancel ==
    \/ (bookings = <<>> /\ createBooking(LedgerRequest))
    \/ \E amount \in {BaseFare \div 2, BaseFare} : processPayment(1, amount, "t1")
    \/ \E h \in Hours, isAdmin \in BOOLEAN : cancelBooking(1, h, isAdmin)
    \/ \E st \in {"Cancelled", "Refunded"}, h \in Hours : updateStatus(1, st, h)

SpecCancel == Init /\ [][NextCancel]_vars

(* The payments and the status of one hiring. *)
NextHiring ==
    \/ \E deposit \in {0, 2, HireCost + 2}, policy \in {"Standard", "Flexible", "Strict"} :
          createHiring("bus1", 1, 2, HireCost, deposit, policy)
    \/ \E amount \in 0..(HireCost + 1), tx \in TxIds : hiringProcessPayment(1, amount, tx)
    \/ \E amount \in 1..(HireCost + 2), ref \in TxIds, success \in BOOLEAN :
          verifyPaymentHiring(1, ref, amount, success)
    \/ \E st \in {"Pending", "Confirmed", "Cancelled", "In Progress", "Completed", "Refunded"},
          d \in {1, 2, 8, 15, 31} : hiringUpdateStatus(1, st, d)

SpecHiring == Init /\ [][NextHiring]_vars

(* The cancellation of one hiring, at every boundary of its policy. *)
Days == {0, 1, 2, 3, 4, 7, 8, 14, 15, 30, 31}

NextHiringCancel ==
    \/ \E policy \in {"Standard", "Flexible", "Strict"} :
          createHiring("bus1", 1, 2, HireCost, 0, policy)
    \/ \E amount \in {1, HireCost - 1, HireCost}, tx \in TxIds :
          hiringProcessPayment(1, amount, tx)
    \/ \E st \in {"Cancelled", "Refunded"}, d \in Days : hiringUpdateStatus(1, st, d)

SpecHiringCancel == Init /\ [][NextHiringCancel]_vars

(* The amount the gateway holds for a reference. *)
GatewayAmount(reference) == IF reference = "t1" THEN BaseFare \div 2 ELSE BaseFare

(* verifyPayment requests of one booking in flight at once. *)
NextVerifyConc ==
    \/ (bookings = <<>> /\ createBooking(LedgerRequest))
    \/ \E p \in Procs :
          \/ \E ref \in TxIds : vpFind(p, ref, GatewayAmount(ref))
          \/ vpSave(p)
          \/ payRespond(p)

SpecVerifyConc == Init /\ [][NextVerifyConc]_vars

(* processPayment requests of one booking in flight at once. *)
NextPayConc ==
    \/ (bookings = <<>> /\ createBooking(LedgerRequest))
    \/ \E p \in Procs :
          \/ \E amount \in {BaseFare \div 2, BaseFare}, tx \in TxIds : ppFind(p, amount, tx)
          \/ ppSave(p)
          \/ payRespond(p)

SpecPayConc == Init /\ [][NextPayConc]_vars

(* The windows of one stored hiring against the windows asked for. *)
HireTimes == 1..4

NextHireWindows ==
    \/ \E s \in HireTimes, e \in HireTimes : createHiring("bus1", s, e, HireCost, 0, "Standard")
    \/ \E st \in {"Confirmed", "In Progress", "Cancelled", "Completed"} :
          hiringUpdateStatus(1, st, 2)
    \/ \E s \in HireTimes, e \in HireTimes : hiringCheckAvailability("bus1", s, e)

SpecHireWindows == Init /\ [][NextHireWindows]_vars

(* A hiring to be priced: every rate type, durations around 8, 24 and 48   *)
(* hours, charges of either sign, and for Route-Based the route and bus.   *)
Durations == {1, 2, 16, 17, 47, 48, 49, 96}

PricedHiring(rateType, baseRate, sd, dur, tripType, al, ot, ch, hr, rf, bf, mu, cap) ==
    [rateType |-> rateType, baseRate |-> baseRate, startDate |-> sd,
     endDate |-> sd + dur, tripType |-> tripType,
     driverAllowance |-> al, overtimeRate |-> ot,
     additionalCharges |-> ch, estimatedDistance |-> 3,
     hasRoute |-> hr, routeFound |-> rf, busFound |-> bf,
     routePriceMultiplier |-> mu, busCapacity |-> cap,
     totalCost |-> 7, bus |-> "bus1", status |-> "Pending"]

PricedHirings ==
    {PricedHiring(rt, 3, sd, dur, tt, al, ot, ch, FALSE, FALSE, TRUE, 1, Capacity) :
        rt \in {"Per Day", "Per Hour", "Per Kilometer", "Fixed"}, sd \in {0, 1},
        dur \in Durations, tt \in {"One-Way", "Round-Trip"}, al \in {0, 2}, ot \in {0, 1},
        ch \in {<<>>, <<[amount |-> 1]>>, <<[amount |-> 1], [amount |-> -50]>>}}
    \cup
    {PricedHiring("Route-Based", br, sd, dur, tt, al, ot, <<>>, hr, rf, bf, mu, cap) :
        br \in {3, 15000}, sd \in {0, 1}, dur \in {16, 20, 49}, tt \in {"One-Way", "Round-Trip"},
        al \in {0, 2}, ot \in {0, 1}, hr \in BOOLEAN, rf \in BOOLEAN, bf \in BOOLEAN,
        mu \in {1, 2}, cap \in {Capacity, 25}}

InitCost ==
    /\ bookings = <<>>
    /\ \E h \in PricedHirings : hirings = <<h>>
    /\ req = [p \in Procs |-> IdleReq]
    /\ lastOp = Op("init", 0, TRUE, "")

NextCost == calculateTotalCost(1)

SpecCost == InitCost /\ [][NextCost]_vars

(* createBooking alone, over every pair of seat lists, with and without *)
(* the promo code; a cancellation frees the seats again.                 *)
SeatSeqs == {<<>>} \cup {<<a>> : a \in Seats} \cup {<<a, b>> : a \in Seats, b \in Seats}

CreateRequests ==
    {[Request(1, NoDate, "One-Way", seats, out, <<>>) EXCEPT !.promo = promo] :
        seats \in SeatSeqs \ {<<>>}, out \in SeatSeqs, promo \in BOOLEAN}
    \cup
    {[Request(1, 2, "Round-Trip", seats, seats, seats) EXCEPT !.promo = promo] :
        seats \in SeatLists, promo \in BOOLEAN}

NextCreate ==
    \/ \E r \in CreateRequests : createBooking(r)
    \/ \E id \in 1..MaxBookings : cancelBooking(id, 80, FALSE)

SpecCreate == Init /\ [][NextCreate]_vars

(* Two createBooking requests in flight at once, for seats of any name. *)
CapacityRequests ==
    {Request(1, NoDate, "One-Way", l, l, <<>>) :
        l \in {<<"A1">>, <<"A3">>, <<"A1", "A2">>, <<"A2", "A3">>}}

NextCapacityConc ==
    \E p \in Procs :
        \/ \E r \in CapacityRequests : cbStart(p, r)
        \/ cbHiring(p)
        \/ cbCapacity(p)
        \/ cbSeats(p)
        \/ cbSave(p)

SpecCapacityConc == Init /\ [][NextCapacityConc]_vars

(* ------------------------- claims --------------------------------------- *)
SharesSeat(b1, b2) ==
    /\ b1.bus = b2.bus
    /\ b1.departureDate = b2.departureDate
    /\ Active(b1) /\ Active(b2)
    /\ Range(b1.passengers) \cap Range(b2.passengers) # {}

NoSeatHeldTwice ==
    \A i \in DOMAIN bookings : \A j \in DOMAIN bookings : i # j => ~SharesSeat(bookings[i], bookings[j])

(* C1: once two concurrent createBooking requests for the same bus and     *)
(* departure have both finished, no seat is held by two Pending/Confirmed  *)
(* bookings of that bus and departure.                                     *)
C1_NoDoubleBookingUnderRace ==
    (\A p \in Procs : Finished(p)) => NoSeatHeldTwice

(* C2: with requests processed one after the other, two Pending/Confirmed  *)
(* bookings of the same bus and departure timestamp never share a seat:    *)
(* were they to, createBooking would have had to reject the second, and    *)
(* both exist.                                                             *)
C2_SeatConflictSoundness == NoSeatHeldTwice

HiringActive(h) == h.status \in {"Pending", "Confirmed", "In Progress"}

HoldsDuring(b, h) ==
    \/ (h.startDate <= b.departureDate /\ b.departureDate < h.endDate)
    \/ (b.returnDate # NoDate /\ h.startDate <= b.returnDate /\ b.returnDate < h.endDate)

(* C3: no bus is held at once by an active hiring and by an active booking *)
(* whose departure (or return) falls in the hiring's window.               *)
C3_HiringBookingExclusive ==
    \A i \in DOMAIN bookings : \A j \in DOMAIN hirings :
        ~(/\ bookings[i].bus = hirings[j].bus
          /\ Active(bookings[i])
          /\ HiringActive(hirings[j])
          /\ HoldsDuring(bookings[i], hirings[j]))

(* C4: a processPayment that carries a transaction id already present in   *)
(* the booking's payments is refused and leaves the payments, the totals,  *)
(* paymentStatus and the status as they were; whenever addPayment throws   *)
(* for a duplicate, nothing of the booking has changed.                    *)
C4_DuplicatePaymentRejected ==
    [][/\ (lastOp'.op = "processPayment" /\ Exists(lastOp'.id))
            => /\ hasTransaction(bookings[lastOp'.id], lastOp'.tx)
                    => (~lastOp'.ok /\ bookings' = bookings)
               /\ lastOp'.why = "duplicate"
                    => (hasTransaction(bookings[lastOp'.id], lastOp'.tx) /\ bookings' = bookings)
       /\ (lastOp'.op = "verifyPayment" /\ Exists(lastOp'.id)
              /\ hasTransaction(bookings[lastOp'.id], lastOp'.tx))
            => bookings' = bookings]_vars

C4_Witness ==
    /\ lastOp.op = "processPayment" /\ lastOp.why = "duplicate"
    /\ Len(bookings[lastOp.id].payments) = 1

(* C5: a reservation whose paymentStatus is Paid has totalPaid >= totalFare *)
(* (totalCost for a hiring) and nothing refunded.                           *)
C5_PaidMeansFullyPaid ==
    /\ \A i \in DOMAIN bookings :
          bookings[i].paymentStatus = "Paid"
             => (getTotalPaid(bookings[i]) >= bookings[i].totalFare
                 /\ getTotalRefunded(bookings[i]) = 0)
    /\ \A j \in DOMAIN hirings :
          hirings[j].paymentStatus = "Paid" => hiringTotalPaid(hirings[j]) >= hirings[j].totalCost

(* C6: the Completed payments of a booking never add up to more than its   *)
(* totalFare.                                                               *)
C6_NoOverpayment ==
    \A i \in DOMAIN bookings : getTotalPaid(bookings[i]) <= bookings[i].totalFare

(* The five rules of the payment status, as <<condition, value>> pairs. *)
StatusRules(paid, fare, refunded) ==
    << <<paid >= fare /\ refunded = 0, "Paid">>,
       <<0 < paid /\ paid < fare, "Partially Paid">>,
       <<0 < refunded /\ refunded < paid, "Partially Refunded">>,
       <<refunded >= paid /\ paid > 0, "Refunded">>,
       <<paid = 0, "Pending">> >>

FirstMatchIs(rules, value) ==
    \E k \in DOMAIN rules :
        /\ rules[k][1]
        /\ rules[k][2] = value
        /\ \A m \in 1..(k - 1) : ~rules[m][1]

LedgerChanged ==
    \/ (lastOp.op \in {"processPayment", "verifyPayment"} /\ lastOp.why = "")
    \/ (lastOp.op = "handleCancellation" /\ lastOp.amount > 0)

PaymentAppended ==
    lastOp'.op \in {"processPayment", "verifyPayment"} /\ lastOp'.why = ""

(* The refund appended inside Booking.updateStatus leaves the status that *)
(* updateStatus has just set.                                              *)
RefundKeepsStatus ==
    (lastOp'.op = "handleCancellation" /\ lastOp'.amount > 0)
        => bookings'[lastOp'.id].status \in {"Cancelled", "Refunded"}

HiringPaymentMade ==
    lastOp'.op \in {"hiringProcessPayment", "verifyPaymentHiring"} /\ lastOp'.why = ""

(* C9: a payment on a hiring changes its status only from Pending to       *)
(* Confirmed and only when totalPaid has reached the deposit; a payment    *)
(* that leaves totalPaid below the deposit leaves the status unchanged,    *)
(* and a Pending hiring whose totalPaid reaches the deposit is Confirmed   *)
(* whether or not the full cost is paid.                                   *)
C9_ConfirmedOnDeposit ==
    [][HiringPaymentMade =>
         LET b == hirings[lastOp'.id]
             a == hirings'[lastOp'.id]
         IN  /\ a.status # b.status
                  => (b.status = "Pending" /\ a.status = "Confirmed"
                      /\ hiringTotalPaid(a) >= a.deposit)
             /\ hiringTotalPaid(a) < a.deposit => a.status = b.status
             /\ (b.status = "Pending" /\ hiringTotalPaid(a) >= a.deposit)
                  => a.status = "Confirmed"]_vars

(* The refund percentage stated for a booking cancelled h hours before     *)
(* departure.                                                              *)
BookingRefundTier(h) ==
    IF h > 72 THEN 100
    ELSE IF 48 < h /\ h <= 72 THEN 75
    ELSE IF 24 < h /\ h <= 48 THEN 50
    ELSE IF 12 < h /\ h <= 24 THEN 25
    ELSE 0

(* C10: a cancellation of a paid booking that goes through, by a user in   *)
(* cancelBooking or in Booking.handleCancellation, applies the percentage  *)
(* of the tier of its hours-to-departure, strict at 72, 48, 24 and 12.     *)
C10_RefundTiers ==
    (/\ lastOp.op \in {"cancelBooking", "handleCancellation"}
     /\ lastOp.ok
     /\ ~lastOp.admin
     /\ getTotalPaid(bookings[lastOp.id]) > 0
     /\ bookings[lastOp.id].paymentStatus \in {"Paid", "Partially Paid"})
        => lastOp.pct = BookingRefundTier(lastOp.h)

(* C11: a cancelBooking by a non-admin less than 24 hours before departure *)
(* is refused and leaves the booking as it was.                            *)
C11_LateUserCancellationRejected ==
    [][(lastOp'.op = "cancelBooking" /\ Exists(lastOp'.id)
          /\ ~lastOp'.admin /\ lastOp'.h < 24)
         => (~lastOp'.ok /\ lastOp'.hist = 0 /\ lastOp'.amount = 0
             /\ bookings' = bookings)]_vars

C11_Witness ==
    /\ lastOp.op = "cancelBooking" /\ lastOp.why = "tooLate"
    /\ bookings[lastOp.id].status \in {"Pending", "Confirmed"}
    /\ getTotalPaid(bookings[lastOp.id]) > 0

(* C12: a cancelBooking by an admin less than 24 hours before departure,   *)
(* on a booking that has payments and is neither Cancelled nor Completed,  *)
(* goes through with a refund percentage of 50.                            *)
C12_AdminLateCancellationHalf ==
    [][(lastOp'.op = "cancelBooking" /\ Exists(lastOp'.id)
          /\ lastOp'.admin /\ lastOp'.h < 24
          /\ bookings[lastOp'.id].status \notin {"Cancelled", "Completed"}
          /\ getTotalPaid(bookings[lastOp'.id]) > 0)
         => (lastOp'.ok /\ lastOp'.pct = 50)]_vars

CancellationDone ==
    lastOp'.op \in {"cancelBooking", "handleCancellation"} /\ lastOp'.ok

(* C13: a cancellation that computes a refund r > 0 appends, in the same   *)
(* operation, a Completed refund of r: totalRefunded grows by r and        *)
(* paymentStatus is the one derived from the ledger.                       *)
C13_RefundRecordedOnCancel ==
    [][(CancellationDone /\ lastOp'.amount > 0)
         => LET b == bookings[lastOp'.id]
                a == bookings'[lastOp'.id]
            IN  /\ getTotalRefunded(a) = getTotalRefunded(b) + lastOp'.amount
                /\ a.paymentStatus = derivedPaymentStatus(a)]_vars

(* The refund percentage stated for a hiring of a policy cancelled d days  *)
(* before its start: the first tier whose day count d exceeds.             *)
HiringTiers(policy) ==
    IF policy = "Standard" THEN << <<14, 90>>, <<7, 75>>, <<3, 50>>, <<1, 25>> >>
    ELSE IF policy = "Flexible" THEN << <<7, 100>>, <<3, 80>>, <<1, 50>> >>
    ELSE << <<30, 75>>, <<14, 50>>, <<7, 25>> >>

HiringRefundTier(policy, d) ==
    LET tiers == HiringTiers(policy)
        above == {k \in DOMAIN tiers : d > tiers[k][1]}
    IN  IF above = {} THEN 0
        ELSE tiers[CHOOSE k \in above : \A m \in above : k <= m][2]

(* C14: a hiring cancellation d days before the start computes the         *)
(* percentage of the tier of its policy, strict at every boundary, and a   *)
(* refund of totalPaid times that percentage rounded to the nearest kobo.  *)
C14_HiringRefundTiers ==
    lastOp.op = "hiringHandleCancellation" =>
        LET h == hirings[lastOp.id]
            exact == hiringTotalPaid(h) * lastOp.pct
        IN  /\ lastOp.pct = HiringRefundTier(h.cancellationPolicy, lastOp.h)
            /\ 2 * exact - 100 < 200 * lastOp.amount
            /\ 200 * lastOp.amount <= 2 * exact + 100

C14_Witness ==
    /\ lastOp.op = "hiringHandleCancellation"
    /\ lastOp.h = 14 /\ lastOp.pct = 75 /\ lastOp.amount > 0
    /\ hirings[lastOp.id].cancellationPolicy = "Standard"

(* C15: a booking that is Cancelled or Completed keeps that status through *)
(* every operation.                                                        *)
C15_TerminalStatusesStay ==
    [][\A i \in DOMAIN bookings :
          bookings[i].status \in {"Cancelled", "Completed"}
             => bookings'[i].status = bookings[i].status]_vars

(* The edges stated for a booking's status. *)
BookingEdges ==
    ({"Pending"} \X {"Confirmed", "Cancelled", "No-Show", "Completed"})
        \cup ({"Confirmed"} \X {"Cancelled", "Completed", "No-Show"})

(* C16: every change of a booking's status follows a stated edge, and      *)
(* Pending -> Confirmed is taken only by a payment that completes the fare. *)
C16_BookingEdgesOnly ==
    [][\A i \in DOMAIN bookings :
          bookings'[i].status # bookings[i].status
             => /\ <<bookings[i].status, bookings'[i].status>> \in BookingEdges
                /\ (bookings[i].status = "Pending" /\ bookings'[i].status = "Confirmed")
                      => (/\ lastOp'.op \in {"processPayment", "verifyPayment"}
                          /\ getTotalPaid(bookings'[i]) >= bookings'[i].totalFare)]_vars

(* The edges stated for a hiring's status. *)
HiringEdges ==
    ({"Pending"} \X {"Approved", "Rejected", "Cancelled"})
        \cup ({"Approved"} \X {"Confirmed", "Cancelled"})
        \cup ({"Confirmed"} \X {"In Progress", "Cancelled"})
        \cup ({"In Progress"} \X {"Completed"})

(* C17: every change of a hiring's status follows a stated edge; Cancelled, *)
(* Rejected and Completed are never left.                                   *)
C17_HiringEdgesOnly ==
    [][\A j \in DOMAIN hirings :
          hirings'[j].status # hirings[j].status
             => <<hirings[j].status, hirings'[j].status>> \in HiringEdges]_vars

(* C18: every change of a booking's status comes with exactly one entry    *)
(* pushed on its status history by the operation that made the change.     *)
C18_StatusHistoryAppended ==
    [][\A i \in DOMAIN bookings :
          bookings'[i].status # bookings[i].status
             => (lastOp'.id = i /\ lastOp'.hist = 1)]_vars

EntriesFor(b, reference) == {i \in DOMAIN b.payments : b.payments[i].reference = reference}

(* C19: once no verifyPayment is in flight, the ledger holds at most one   *)
(* payment per gateway reference, whatever the interleaving was.           *)
C19_OneEntryPerReference ==
    NoneInFlight =>
        \A i \in DOMAIN bookings : \A ref \in TxIds :
            Cardinality(EntriesFor(bookings[i], ref)) <= 1

(* C20: once no processPayment is in flight, totalPaid does not exceed     *)
(* totalFare, whatever the interleaving was.                               *)
C20_NoOverpaymentUnderRace ==
    NoneInFlight =>
        \A i \in DOMAIN bookings : getTotalPaid(bookings[i]) <= bookings[i].totalFare

(* Half-open windows [s1, e1) and [s2, e2) intersect. *)
WindowsOverlap(s1, e1, s2, e2) == s1 < e2 /\ s2 < e1

(* C21: with no booking on the bus, checkBusAvailability reports the bus   *)
(* unavailable exactly when an active hiring of the bus has a window that  *)
(* intersects the requested one as half-open intervals.                    *)
C21_HiringOverlapHalfOpen ==
    (lastOp.op = "checkBusAvailability" /\ bookings = <<>>)
        => (~lastOp.ok <=>
              \E j \in DOMAIN hirings :
                  /\ hirings[j].bus = "bus1"
                  /\ HiringActive(hirings[j])
                  /\ WindowsOverlap(lastOp.window[1], lastOp.window[2],
                                    hirings[j].startDate, hirings[j].endDate))

(* The least k with k * d >= n. *)
CeilOf(n, d) == CHOOSE k \in 0..n : k * d >= n /\ (k - 1) * d < n

CostComputed == lastOp.op = "calculateTotalCost" /\ lastOp.ok

PlainAdditions(h) ==
    (IF h.driverAllowance > 0 THEN h.driverAllowance ELSE 0) + SumAmounts(h.additionalCharges)

(* Twice the overtime charge stated: the hours over 8 per day started,     *)
(* times overtimeRate, when there are such hours and the rate is positive. *)
ExpectedOvertime(h) ==
    LET ticks == h.endDate - h.startDate
        standard == CeilOf(ticks, 48) * 16
    IN  IF ticks > standard /\ h.overtimeRate > 0 THEN (ticks - standard) * h.overtimeRate
        ELSE 0

OtherTrip(h) ==
    [h EXCEPT !.tripType = IF @ = "Round-Trip" THEN "One-Way" ELSE "Round-Trip"]

RoundTripCost(h) == IF h.tripType = "Round-Trip" THEN h.totalCost ELSE totalCostOf(OtherTrip(h))

OneWayCost(h) == IF h.tripType = "One-Way" THEN h.totalCost ELSE totalCostOf(OtherTrip(h))

(* C23 as stated: the Round-Trip total is exactly twice the One-Way total  *)
(* of the same hiring.                                                     *)
C23_RoundTripTwiceOneWay ==
    CostComputed => RoundTripCost(hirings[1]) = 2 * OneWayCost(hirings[1])

(* C23, amended: the doubling is applied last and before the rounding, so  *)
(* the Round-Trip total is twice the One-Way total when the One-Way total  *)
(* needs no rounding, and one kobo away from twice it otherwise.           *)
C23_RoundTripDoubledBeforeRounding ==
    CostComputed =>
        LET h == hirings[1]
            exact == accumulatedCost([h EXCEPT !.tripType = "One-Way"])
        IN  /\ exact % 2 = 0 => RoundTripCost(h) = 2 * OneWayCost(h)
            /\ exact % 2 # 0 => RoundTripCost(h) - 2 * OneWayCost(h) \in {-1, 1}

C23_Witness ==
    /\ CostComputed
    /\ hirings[1].tripType = "Round-Trip"
    /\ hirings[1].driverAllowance > 0 /\ hirings[1].additionalCharges # <<>>
    /\ hirings[1].totalCost = 2 * OneWayCost(hirings[1]) - 1

Unadorned(h) ==
    /\ h.tripType = "One-Way" /\ h.driverAllowance = 0 /\ h.overtimeRate = 0
    /\ h.additionalCharges = <<>>

(* C24: with nothing added, a Per Day hiring costs baseRate times the days *)
(* started (24 hours is one day, more than 24 up to 48 is two) and a Per   *)
(* Hour hiring costs baseRate times the hours started.                     *)
C24_PerDayPerHourCeil ==
    (CostComputed /\ Unadorned(hirings[1])) =>
        LET h == hirings[1]
            ticks == h.endDate - h.startDate
        IN  /\ h.rateType = "Per Day" => h.totalCost = h.baseRate * CeilOf(ticks, 48)
            /\ (h.rateType = "Per Day" /\ ticks = 48) => h.totalCost = h.baseRate
            /\ (h.rateType = "Per Day" /\ 48 < ticks /\ ticks <= 96)
                  => h.totalCost = 2 * h.baseRate
            /\ h.rateType = "Per Hour" => h.totalCost = h.baseRate * CeilOf(ticks, 2)

C24_Witness ==
    /\ CostComputed /\ Unadorned(hirings[1])
    /\ hirings[1].rateType = "Per Day"
    /\ hirings[1].endDate - hirings[1].startDate = 48
    /\ hirings[1].totalCost = hirings[1].baseRate

(* C25: for every rate type the total holds the overtime charge exactly    *)
(* when the hours exceed 8 per day started and overtimeRate > 0.           *)
C25_OvertimeCharged ==
    CostComputed =>
        LET h == hirings[1]
            trips == IF h.tripType = "Round-Trip" THEN 2 ELSE 1
        IN  h.totalCost =
              Round2(trips * (2 * (baseCost(h) + PlainAdditions(h)) + ExpectedOvertime(h)), 2)

C25_Witness ==
    /\ CostComputed
    /\ hirings[1].rateType = "Fixed" /\ hirings[1].tripType = "One-Way"
    /\ hirings[1].overtimeRate > 0 /\ hirings[1].endDate - hirings[1].startDate = 49
    /\ PlainAdditions(hirings[1]) = 0
    /\ hirings[1].totalCost > hirings[1].baseRate

(* C26: calculateTotalCost of a Route-Based hiring fails with the          *)
(* missing-route error when no route is linked, with the not-found error   *)
(* when the route or the bus does not resolve, and leaves totalCost as it  *)
(* was in both cases.                                                      *)
C26_RoutePricingErrors ==
    [][(lastOp'.op = "calculateTotalCost" /\ hirings[1].rateType = "Route-Based")
         => LET h == hirings[1]
            IN  /\ ~h.hasRoute => (lastOp'.why = "missingRoute" /\ hirings' = hirings)
                /\ (h.hasRoute /\ ~(h.routeFound /\ h.busFound))
                      => (lastOp'.why = "notFound" /\ hirings' = hirings)
                /\ (h.hasRoute /\ h.routeFound /\ h.busFound) => lastOp'.ok]_vars

C26_Witness ==
    /\ lastOp.op = "calculateTotalCost" /\ lastOp.why = "notFound"
    /\ hirings[1].hasRoute /\ hirings[1].totalCost = 7

(* C27: the totalCost stored by calculateTotalCost is never negative.      *)
C27_TotalCostNonNegative ==
    CostComputed => hirings[1].totalCost >= 0

BookingCreated == lastOp.op = "createBooking" /\ lastOp.ok

(* C28 as stated: the fare stored at creation for k+N passengers is the    *)
(* fare for k passengers plus N times the fare for one passenger.          *)
C28_FareAdditive ==
    BookingCreated =>
        LET b == bookings[lastOp.id]
            n == Len(b.passengers)
        IN  \A k \in 1..(n - 1) :
               b.totalFare = computeFare(k, b.bookingType, b.promoCode)
                               + (n - k) * computeFare(1, b.bookingType, b.promoCode)

(* C28, amended: the fare before rounding is the passenger count times the *)
(* per-passenger fare with nothing fixed added, and the stored fare is its *)
(* rounding; without a promo code the stored fares add up exactly.         *)
C28_FareLinearBeforeRounding ==
    BookingCreated =>
        LET b == bookings[lastOp.id]
            n == Len(b.passengers)
            trips == IF b.bookingType = "Round-Trip" THEN 2 ELSE 1
        IN  /\ ~b.promoCode =>
                  /\ b.totalFare = n * trips * BaseFare
                  /\ \A k \in 1..(n - 1) :
                        b.totalFare = computeFare(k, b.bookingType, FALSE)
                                        + (n - k) * computeFare(1, b.bookingType, FALSE)
            /\ b.promoCode => 10 * b.totalFare - 9 * n * trips * BaseFare \in -5..5

C28_Witness ==
    /\ BookingCreated
    /\ Len(bookings[lastOp.id].passengers) = 2
    /\ bookings[lastOp.id].promoCode
    /\ bookings[lastOp.id].totalFare
          # 2 * computeFare(1, bookings[lastOp.id].bookingType, TRUE)

OccupiedSeats(bus, departure) ==
    UNION {Range(bookings[i].passengers) :
             i \in {j \in DOMAIN bookings : /\ bookings[j].bus = bus
                                           /\ bookings[j].departureDate = departure
                                           /\ bookings[j].status \in {"Pending", "Confirmed"}}}

(* C29: in every state reached through createBooking the seats occupied by *)
(* Pending/Confirmed bookings of a bus and departure are at most the bus's  *)
(* capacity.                                                                *)
C29_OccupiedWithinCapacity ==
    \A bus \in Buses, d \in Times : Cardinality(OccupiedSeats(bus, d)) <= Capacity

NoDuplicate(l) == \A i \in DOMAIN l, j \in DOMAIN l : i # j => l[i] # l[j]

SeatListsAgree(r) ==
    /\ NoDuplicate(r.outbound)
    /\ NoDuplicate(r.passengers)
    /\ Range(r.outbound) = Range(r.passengers)

(* C30: createBooking accepts a request only if neither seat list has a    *)
(* duplicate and the two are equal as sets; any other request is rejected  *)
(* and no booking is stored.                                               *)
C30_SeatListsMustAgree ==
    [][\A r \in CreateRequests :
          createBooking(r) =>
             /\ lastOp'.ok => SeatListsAgree(r)
             /\ ~SeatListsAgree(r) => (~lastOp'.ok /\ bookings' = bookings)]_vars

C30_Witness ==
    /\ lastOp.op = "createBooking" /\ lastOp.why = "mismatch"
    /\ Len(bookings) = 1 /\ bookings[1].status = "Cancelled"

ReturnSeatTaken(r) ==
    \E i \in DOMAIN bookings :
        /\ bookings[i].bus = r.bus
        /\ bookings[i].status \in {"Pending", "Confirmed"}
        /\ bookings[i].returnDate # NoDate
        /\ bookings[i].returnDate = r.returnDate
        /\ Range(bookings[i].selectedSeats.return) \cap Range(r.return) # {}

(* C31: a Round-Trip request asking for a return seat that is in the       *)
(* return-seat set of another Pending/Confirmed booking of the same bus    *)
(* and return timestamp is rejected.                                       *)
C31_ReturnSeatsChecked ==
    [][\A r \in Requests :
          (createBooking(r) /\ r.bookingType = "Round-Trip" /\ ReturnSeatTaken(r))
             => ~lastOp'.ok]_vars

(* C32: addRefund rejects a refund whose amount is not greater than 0 and  *)
(* leaves the refunds, the refunded total and paymentStatus as they were;  *)
(* a refund with amount > 0 is appended and paymentStatus is recomputed.   *)
C32_AddRefundValidatesAmount ==
    [][lastOp'.op = "addRefund" =>
         LET b == bookings[lastOp'.id]
             after == bookings'[lastOp'.id]
         IN  /\ lastOp'.amount <= 0 =>
                  /\ ~lastOp'.ok
                  /\ after.refunds = b.refunds
                  /\ getTotalRefunded(after) = getTotalRefunded(b)
                  /\ after.paymentStatus = b.paymentStatus
             /\ lastOp'.amount > 0 =>
                  /\ Len(after.refunds) = Len(b.refunds) + 1
                  /\ getTotalRefunded(after) = getTotalRefunded(b) + lastOp'.amount
                  /\ after.paymentStatus = derivedPaymentStatus(after)]_vars

(* C33: the transaction identifiers within one hiring's ledger are pairwise *)
(* distinct in every reachable state.                                       *)
C33_HiringTransactionIdsDistinct ==
    \A id \in DOMAIN hirings :
        \A i \in DOMAIN hirings[id].payments, j \in DOMAIN hirings[id].payments :
            i # j => hirings[id].payments[i].transactionId # hirings[id].payments[j].transactionId

(* C34: every ticket operation leaves all previously recorded verification *)
(* entries in place and unchanged.                                         *)
C34_VerificationsOnlyGrow ==
    [][\A id \in DOMAIN bookings :
          /\ Len(bookings'[id].verifications) >= Len(bookings[id].verifications)
          /\ \A i \in DOMAIN bookings[id].verifications :
                bookings'[id].verifications[i] = bookings[id].verifications[i]]_vars

(* C35: when the gateway does not report a successful transaction,         *)
(* verifyPayment leaves the linked booking or hiring exactly as it was.    *)
C35_GatewayFailureLeavesRecord ==
    [][\A ref \in TxIds, amount \in 1..(BaseFare + HireCost) :
          /\ verifyPayment(1, ref, amount, FALSE)
                => (~lastOp'.ok /\ bookings' = bookings /\ hirings' = hirings)
          /\ verifyPaymentHiring(1, ref, amount, FALSE)
                => (~lastOp'.ok /\ bookings' = bookings /\ hirings' = hirings)]_vars

C35_Witness ==
    /\ lastOp.op = "verifyPaymentHiring" /\ lastOp.why = "gateway"
    /\ Len(hirings[1].payments) = 1 /\ hirings[1].paymentStatus = "Partially Paid"
    /\ bookings # <<>> /\ Len(bookings[1].payments) = 1

(* C36: createBooking rejects a request naming a bus that is not Active,   *)
(* and checkBusAvailability reports such a bus unavailable.                *)
C36_OnlyActiveBuses ==
    [][/\ \A r \in BusRequests :
             (createBooking(r) /\ BusStatusOf[r.bus] # "Active") => ~lastOp'.ok
       /\ \A bus \in Buses, s \in Times, e \in Times :
             (hiringCheckAvailability(bus, s, e) /\ BusStatusOf[bus] # "Active")
                => ~lastOp'.ok]_vars

HoldersOf(bus, departure, seat) ==
    {i \in DOMAIN bookings : /\ bookings[i].bus = bus
                             /\ bookings[i].departureDate = departure
                             /\ bookings[i].status \in {"Pending", "Confirmed"}
                             /\ seat \in Range(bookings[i].passengers)}

(* C37: after any sequence of createBooking, updateBooking,                *)
(* updateBookingStatus and cancelBooking, every seat of a bus and          *)
(* departure is held by at most one Pending/Confirmed booking.             *)
C37_SeatExclusivityPreserved ==
    \A bus \in Buses, d \in Times, seat \in Seats :
        Cardinality(HoldersOf(bus, d, seat)) <= 1

(* C38: the Completed refunds of a booking never add up to more than its   *)
(* Completed payments.                                                     *)
C38_RefundsWithinPayments ==
    \A i \in DOMAIN bookings : getTotalRefunded(bookings[i]) <= getTotalPaid(bookings[i])

(* C39: no payment entry is appended to a booking whose status is          *)
(* Cancelled, by processPayment or by verifyPayment.                       *)
C39_NoPaymentOnCancelled ==
    [][\A i \in DOMAIN bookings :
          bookings[i].status = "Cancelled"
             => Len(bookings'[i].payments) <= Len(bookings[i].payments)]_vars

(* A One-Way request that fits: its seat lists agree, none of its seats is *)
(* occupied on its bus and departure, and it stays within the capacity.    *)
FitsOneWay(r) ==
    /\ r.bookingType = "One-Way"
    /\ SeatListsAgree(r)
    /\ Range(r.passengers) \cap OccupiedSeats(r.bus, r.departureDate) = {}
    /\ Cardinality(OccupiedSeats(r.bus, r.departureDate)) + Len(r.passengers) <= Capacity

(* C40: the seats of a cancelled booking no longer count as occupied, so a *)
(* later createBooking that fits is accepted; and a cancelBooking on a     *)
(* booking already Cancelled is rejected and changes nothing.              *)
C40_CancelFreesSeatsOnce ==
    [][/\ \A r \in CreateRequests : (createBooking(r) /\ FitsOneWay(r)) => lastOp'.ok
       /\ \A id \in DOMAIN bookings :
             (lastOp'.op = "cancelBooking" /\ lastOp'.id = id
                 /\ bookings[id].status = "Cancelled")
                => /\ ~lastOp'.ok
                   /\ bookings' = bookings
                   /\ lastOp'.amount = 0 /\ lastOp'.hist = 0]_vars

C40_Witness ==
    /\ lastOp.op = "cancelBooking" /\ ~lastOp.ok /\ lastOp.id = 1
    /\ Len(bookings) = 2
    /\ bookings[1].status = "Cancelled" /\ bookings[2].status = "Pending"
    /\ bookings[1].bus = bookings[2].bus
    /\ bookings[1].departureDate = bookings[2].departureDate
    /\ Range(bookings[1].passengers) = Range(bookings[2].passengers)
====
